---- MODULE Spec2Model ----
(***************************************************************************)
(* Model of the Groq Excel relay (src/src/main.rs): one axum server with   *)
(* GET / (home) and POST /chat (chat).  The chat handler validates the     *)
(* prompt, sends one completion request upstream and maps the result to    *)
(* the caller's response.                                                  *)
(*                                                                         *)
(* Strings are sequences of characters.  The completion text returned by   *)
(* the model (choices[0].message.content) is a sequence of lexical chunks  *)
(* ("[", "]", ",", "1", "null", whitespace), parsed by FromStr the way     *)
(* serde_json::from_str parses it.  JSON values are tagged records:        *)
(* [null |-> TRUE], [num |-> n], [str |-> s], [arr |-> <<..>>],            *)
(* [obj |-> f].                                                            *)
(***************************************************************************)
EXTENDS Integers, Sequences, FiniteSets, TLC

VARIABLES pc, req, calls, res, resp

vars == <<pc, req, calls, res, resp>>

-----------------------------------------------------------------------------
(* Bounds of the explored inputs *)

MaxPromptLen == 2

MaxContentLen == 5

-----------------------------------------------------------------------------
(* http::StatusCode values used by the handler *)

OK == 200

BAD_REQUEST == 400

UNPROCESSABLE_ENTITY == 422

INTERNAL_SERVER_ERROR == 500

GATEWAY_TIMEOUT == 504

\* StatusCode::is_success: 200..=299
IsSuccess(status) == status >= 200 /\ status < 300

-----------------------------------------------------------------------------
(* Strings *)

\* all sequences over S of length at most n
SeqsUpTo(S, n) == UNION {[1..k -> S] : k \in 0..n}

\* char::is_whitespace (White_Space): the space and, e.g., form feed
IsRustWs(c) == c \in {" ", "\f"}

\* the whitespace serde_json skips between tokens: ' ', '\n', '\t', '\r'
IsJsonWs(c) == c = " "

RECURSIVE TrimStart(_)
TrimStart(s) ==
    IF s # <<>> /\ IsRustWs(Head(s)) THEN TrimStart(Tail(s)) ELSE s

RECURSIVE TrimEnd(_)
TrimEnd(s) ==
    IF s # <<>> /\ IsRustWs(s[Len(s)])
    THEN TrimEnd(SubSeq(s, 1, Len(s) - 1))
    ELSE s

\* str::trim
Trim(s) == TrimEnd(TrimStart(s))

-----------------------------------------------------------------------------
(* serde_json *)

JNull == [null |-> TRUE]

IsArray(v) == "arr" \in DOMAIN v

IsString(v) == "str" \in DOMAIN v

\* Value::index by key: Null unless v is an object that has the key
IndexKey(v, k) ==
    IF "obj" \in DOMAIN v /\ k \in DOMAIN v.obj THEN v.obj[k] ELSE JNull

\* Value::index by position: Null unless v is an array that long
IndexPos(v, i) ==
    IF "arr" \in DOMAIN v /\ i + 1 <= Len(v.arr) THEN v.arr[i + 1] ELSE JNull

\* Value::as_str().unwrap_or("")
AsStrOrEmpty(v) == IF IsString(v) THEN v.str ELSE <<>>

ParseFail == [ok |-> FALSE]

RECURSIVE SkipWs(_, _)
SkipWs(s, i) ==
    IF i <= Len(s) /\ IsJsonWs(s[i]) THEN SkipWs(s, i + 1) ELSE i

\* end of the run of digits that starts at i
RECURSIVE DigitsEnd(_, _)
DigitsEnd(s, i) ==
    IF i <= Len(s) /\ s[i] = "1" THEN DigitsEnd(s, i + 1) ELSE i

\* the number written as k digits 1
RECURSIVE Repunit(_)
Repunit(k) == IF k = 0 THEN 0 ELSE 10 * Repunit(k - 1) + 1

RECURSIVE ParseValue(_, _), ParseElems(_, _, _)
\* one JSON value starting at or after position i0
ParseValue(s, i0) ==
    LET i == SkipWs(s, i0) IN
    IF i > Len(s) THEN ParseFail
    ELSE IF s[i] = "null"
         THEN [ok |-> TRUE, val |-> JNull, next |-> i + 1]
    ELSE IF s[i] = "1"
         THEN LET j == DigitsEnd(s, i) IN
              [ok |-> TRUE, val |-> [num |-> Repunit(j - i)], next |-> j]
    ELSE IF s[i] = "["
         THEN LET j == SkipWs(s, i + 1) IN
              IF j <= Len(s) /\ s[j] = "]"
              THEN [ok |-> TRUE, val |-> [arr |-> <<>>], next |-> j + 1]
              ELSE ParseElems(s, j, <<>>)
    ELSE ParseFail

\* the elements of an array after "[", up to and including "]"
ParseElems(s, i, acc) ==
    LET r == ParseValue(s, i) IN
    IF ~r.ok THEN ParseFail
    ELSE LET j == SkipWs(s, r.next)
             acc2 == Append(acc, r.val) IN
         IF j > Len(s) THEN ParseFail
         ELSE IF s[j] = "," THEN ParseElems(s, j + 1, acc2)
         ELSE IF s[j] = "]"
              THEN [ok |-> TRUE, val |-> [arr |-> acc2], next |-> j + 1]
         ELSE ParseFail

\* serde_json::from_str::<Value>: one value, then only whitespace
FromStr(s) ==
    LET r == ParseValue(s, 1) IN
    IF r.ok /\ SkipWs(s, r.next) > Len(s)
    THEN [ok |-> TRUE, val |-> r.val]
    ELSE ParseFail

-----------------------------------------------------------------------------
(* Messages *)

None == [none |-> TRUE]

\* a body that is not JSON text at all
Malformed == [malformed |-> TRUE]

\* the body of an upstream response that could not be read
ReadErr == [readerr |-> TRUE]

\* Err((status, Json(ErrorResponse { error })))
ErrorResponse(status, error) == [status |-> status, body |-> [error |-> error]]

\* Ok(Json(value)): axum answers 200
OkResponse(value) == [status |-> OK, body |-> value]

IsErrorBody(r) == "error" \in DOMAIN r.body

-----------------------------------------------------------------------------
(* Inputs *)

PromptChars == {" ", "a"}

Prompts == SeqsUpTo(PromptChars, MaxPromptLen)

ContentChunks == {" ", "\f", "[", "]", ",", "1", "null"}

Contents == SeqsUpTo(ContentChunks, MaxContentLen)

JStr(s) == [str |-> s]

\* POST /chat bodies: not JSON, JSON objects without a usable prompt, and
\* {"prompt": p} for every p
RequestBodies ==
    {Malformed,
     [obj |-> <<>>],
     [obj |-> [message |-> JStr(<<"a">>)]],
     [obj |-> [messages |-> [arr |-> <<>>]]],
     [obj |-> [prompt |-> JNull]],
     [obj |-> [prompt |-> [num |-> 1]]],
     [obj |-> [prompt |-> JStr(<<>>), message |-> JStr(<<"a">>)]]}
    \cup {[obj |-> [prompt |-> JStr(p)]] : p \in Prompts}

\* {"choices":[{"message":{"content": c}}]}
Completion(c) ==
    [obj |-> [choices |-> [arr |-> <<[obj |-> [message |->
        [obj |-> [content |-> c]]]]>>]]]

\* JSON documents of other shapes
ShapeDocs ==
    {[arr |-> <<>>],
     [obj |-> <<>>],
     [obj |-> [error |-> JStr(<<"a">>)]],
     [obj |-> [choices |-> JNull]],
     [obj |-> [choices |-> [arr |-> <<>>]]],
     [obj |-> [choices |-> [obj |-> [message |-> JNull]]]],
     [obj |-> [choices |-> [arr |-> <<JNull>>]]],
     [obj |-> [choices |-> [arr |-> <<[obj |-> <<>>]>>]]],
     [obj |-> [choices |-> [arr |-> <<[obj |-> [message |-> [obj |-> <<>>]]]>>]]],
     Completion(JNull),
     Completion([num |-> 1]),
     Completion([arr |-> <<[num |-> 1]>>])}

UpstreamStatuses == {200, 201, 304, 400, 422, 500, 503, 504}

UpstreamBodies ==
    {ReadErr, [text |-> "rate limited"]} \cup {[doc |-> d] : d \in ShapeDocs}

\* what send() can deliver: any status with any small body, and a 200
\* completion whose content is any chunk sequence
UpstreamResponses ==
    {[status |-> s, body |-> b] : s \in UpstreamStatuses, b \in UpstreamBodies}
    \cup {[status |-> OK, body |-> [doc |-> Completion(JStr(c))]] : c \in Contents}

\* how the upstream behaves for one call
UpstreamModes == {"responds", "unreachable", "silent"}

-----------------------------------------------------------------------------
(* main *)

NoTimeout == [timeout |-> "none"]

\* Client::new(): the default client has no request timeout
ClientTimeout == NoTimeout

\* the errors send() can return: resolution and connection failures, and the
\* timeout error when the client has a timeout
SendErrors(mode) ==
    IF mode = "unreachable" THEN {"dns error", "connection refused"}
    ELSE IF mode = "silent" /\ ClientTimeout # NoTimeout THEN {"operation timed out"}
    ELSE {}

-----------------------------------------------------------------------------
(* chat *)

\* Json<PromptRequest>: axum's extractor answers by itself, in plain text,
\* when the body is not JSON (400) or is JSON that does not deserialize into
\* PromptRequest, an object with a string field prompt (422); fields other
\* than prompt are ignored
JsonExtract(b) ==
    IF b = Malformed
    THEN [ok |-> FALSE, rejection |-> [status |-> BAD_REQUEST,
              body |-> [text |-> "Failed to parse the request body as JSON"]]]
    ELSE IF "obj" \notin DOMAIN b \/ "prompt" \notin DOMAIN b.obj
            \/ ~IsString(b.obj.prompt)
    THEN [ok |-> FALSE, rejection |-> [status |-> UNPROCESSABLE_ENTITY,
              body |-> [text |-> "Failed to deserialize the JSON body into the target type"]]]
    ELSE [ok |-> TRUE, val |-> [prompt |-> b.obj.prompt.str]]

\* variant: the test forgets trim()
PromptIsEmptyUntrimmed(prompt) == prompt = <<>>

\* body.prompt.trim().is_empty()
PromptIsEmpty(prompt) == Trim(prompt) = <<>>

system_msg == "You are an intelligent Excel assistant AI. ... Only pure JSON array."

\* variant: the user message carries the trimmed prompt
PayloadTrimmed(prompt) ==
    [model |-> "llama3-8b-8192",
     messages |-> <<[role |-> "system", content |-> JStr(system_msg)],
                    [role |-> "user", content |-> JStr(Trim(prompt))]>>]

\* json!({"model": ..., "messages": [system, user]})
Payload(prompt) ==
    [model |-> "llama3-8b-8192",
     messages |-> <<[role |-> "system", content |-> JStr(system_msg)],
                    [role |-> "user", content |-> JStr(prompt)]>>]

\* variant: the content is not trimmed
ReplyUntrimmed(json_data) ==
    AsStrOrEmpty(
        IndexKey(IndexKey(IndexPos(IndexKey(json_data, "choices"), 0),
                          "message"), "content"))

\* json_data["choices"][0]["message"]["content"].as_str().unwrap_or("").trim()
Reply(json_data) ==
    Trim(AsStrOrEmpty(
        IndexKey(IndexKey(IndexPos(IndexKey(json_data, "choices"), 0),
                          "message"), "content")))

\* variant: content that is not JSON is passed on as a plain-text reply
MapReplyLenient(reply) ==
    LET actions == FromStr(reply) IN
    IF actions.ok
    THEN IF IsArray(actions.val)
         THEN OkResponse([actions |-> actions.val])
         ELSE ErrorResponse(UNPROCESSABLE_ENTITY,
                  [msg |-> "Groq API returned valid JSON but not an array as expected: {}",
                   reply |-> reply])
    ELSE OkResponse([reply |-> reply])

\* match serde_json::from_str::<Value>(reply)
MapReply(reply) ==
    LET actions == FromStr(reply) IN
    IF actions.ok
    THEN IF IsArray(actions.val)
         THEN OkResponse([actions |-> actions.val])
         ELSE ErrorResponse(UNPROCESSABLE_ENTITY,
                  [msg |-> "Groq API returned valid JSON but not an array as expected: {}",
                   reply |-> reply])
    ELSE ErrorResponse(UNPROCESSABLE_ENTITY,
             [msg |-> "Groq API returned invalid JSON: {}", reply |-> reply])

\* variant: a body that is not JSON is taken as Null (unwrap_or_default)
MapSuccessNullOnError(body) ==
    IF "doc" \in DOMAIN body
    THEN MapReply(Reply(body.doc))
    ELSE MapReply(Reply(JNull))

\* response.json::<Value>().await.map_err(...)?
MapSuccess(body) ==
    IF "doc" \in DOMAIN body
    THEN MapReply(Reply(body.doc))
    ELSE ErrorResponse(INTERNAL_SERVER_ERROR,
             [msg |-> "Failed to parse Groq API response JSON: {}", body |-> body])

\* response.text().await.unwrap_or_else(...)
ErrorText(body) ==
    IF body = ReadErr THEN [text |-> "Unknown error from Groq API"] ELSE body

\* variant: every upstream failure is answered 500
MapFailureAs500(status, body) ==
    ErrorResponse(INTERNAL_SERVER_ERROR,
        [msg |-> "Groq API failed with status {}: {}",
         status |-> status, text |-> ErrorText(body)])

\* the non-success branch: the upstream status with the body text
MapFailure(status, body) ==
    ErrorResponse(status,
        [msg |-> "Groq API failed with status {}: {}",
         status |-> status, text |-> ErrorText(body)])

\* Ok(response) => ...
MapResponse(u) ==
    IF IsSuccess(u.status) THEN MapSuccess(u.body) ELSE MapFailure(u.status, u.body)

\* variant: a transport failure is answered 500
MapSendErrorAs500(e) ==
    ErrorResponse(INTERNAL_SERVER_ERROR, [msg |-> "Groq API request failed: {}", e |-> e])

\* Err(e) => ...
MapSendError(e) ==
    ErrorResponse(GATEWAY_TIMEOUT, [msg |-> "Groq API request failed: {}", e |-> e])

-----------------------------------------------------------------------------
(* The server *)

Init ==
    /\ pc = "idle"
    /\ req = None
    /\ calls = <<>>
    /\ res = None
    /\ resp = None

\* GET /
Home ==
    /\ pc = "idle"
    /\ pc' = "done"
    /\ req' = [route |-> "/"]
    /\ resp' = [status |-> OK, body |-> [text |-> "Groq Excel AI API is Running!"]]
    /\ UNCHANGED <<calls, res>>

\* POST /chat with a body the Json extractor rejects: chat is not entered
JsonRejection ==
    /\ pc = "idle"
    /\ \E b \in RequestBodies :
          /\ ~JsonExtract(b).ok
          /\ req' = [route |-> "/chat", body |-> b]
          /\ resp' = JsonExtract(b).rejection
    /\ pc' = "done"
    /\ UNCHANGED <<calls, res>>

\* POST /chat, from the entry of chat to its first await or early return
Chat ==
    /\ pc = "idle"
    /\ \E b \in RequestBodies :
          /\ JsonExtract(b).ok
          /\ req' = [route |-> "/chat", body |-> b]
          /\ LET body == JsonExtract(b).val IN
             IF PromptIsEmpty(body.prompt)
             THEN /\ resp' = ErrorResponse(BAD_REQUEST, [msg |-> "No prompt provided"])
                  /\ pc' = "done"
                  /\ UNCHANGED <<calls, res>>
             ELSE /\ calls' = Append(calls, Payload(body.prompt))
                  /\ \E mode \in UpstreamModes : res' = [pending |-> mode]
                  /\ pc' = "awaiting"
                  /\ UNCHANGED resp

\* send().await returns Ok(response); chat runs to its end
SendOk ==
    /\ pc = "awaiting"
    /\ res = [pending |-> "responds"]
    /\ \E u \in UpstreamResponses :
          /\ res' = [ok |-> u]
          /\ resp' = MapResponse(u)
    /\ pc' = "done"
    /\ UNCHANGED <<req, calls>>

\* send().await returns Err(e); chat runs to its end
SendErr ==
    /\ pc = "awaiting"
    /\ "pending" \in DOMAIN res
    /\ \E e \in SendErrors(res.pending) :
          /\ res' = [err |-> e]
          /\ resp' = MapSendError(e)
    /\ pc' = "done"
    /\ UNCHANGED <<req, calls>>

\* the response is written to the caller; the next request is independent
Deliver ==
    /\ pc = "done"
    /\ pc' = "idle"
    /\ req' = None
    /\ calls' = <<>>
    /\ res' = None
    /\ resp' = None

Next == Home \/ JsonRejection \/ Chat \/ SendOk \/ SendErr \/ Deliver

Spec == Init /\ [][Next]_vars

\* a pending call whose outcome is determined completes
FairSpec == Spec /\ WF_vars(SendOk) /\ WF_vars(SendErr)

-----------------------------------------------------------------------------
(* What the properties speak about *)

\* a POST /chat request is being or has been handled
IsChat == "route" \in DOMAIN req /\ req.route = "/chat"

\* its body is a JSON object
HasObject == IsChat /\ "obj" \in DOMAIN req.body

\* its body carries a string prompt
HasPrompt ==
    /\ HasObject
    /\ "prompt" \in DOMAIN req.body.obj
    /\ "str" \in DOMAIN req.body.obj.prompt

PromptOf == req.body.obj.prompt.str

\* empty or whitespace only
Blank(s) == \A i \in 1..Len(s) : s[i] \in {" ", "\f"}

\* the handler is through with the request
Done == pc = "done"

\* send() returned a response
Responded == Done /\ "ok" \in DOMAIN res

\* send() returned an error
TransportFailed == Done /\ "err" \in DOMAIN res

Is2xx(status) == status \in 200..299

\* the upstream answered 2xx with a JSON document
RespondedJson ==
    Responded /\ Is2xx(res.ok.status) /\ "doc" \in DOMAIN res.ok.body

\* the document has an element at choices[0]
HasChoice0(d) ==
    /\ "obj" \in DOMAIN d
    /\ "choices" \in DOMAIN d.obj
    /\ "arr" \in DOMAIN d.obj.choices
    /\ Len(d.obj.choices.arr) >= 1

\* the document has a string at choices[0].message.content
HasContent(d) ==
    /\ HasChoice0(d)
    /\ "obj" \in DOMAIN d.obj.choices.arr[1]
    /\ "message" \in DOMAIN d.obj.choices.arr[1].obj
    /\ "obj" \in DOMAIN d.obj.choices.arr[1].obj.message
    /\ "content" \in DOMAIN d.obj.choices.arr[1].obj.message.obj
    /\ "str" \in DOMAIN d.obj.choices.arr[1].obj.message.obj.content

ContentOf(d) == d.obj.choices.arr[1].obj.message.obj.content.str

\* the upstream answered 2xx with a completion that has a content string
RespondedContent == RespondedJson /\ HasContent(res.ok.body.doc)

\* that content, trimmed
TrimmedContent == Trim(ContentOf(res.ok.body.doc))

\* the trimmed content is the text of a JSON array
ContentIsArray ==
    FromStr(TrimmedContent).ok /\ "arr" \in DOMAIN FromStr(TrimmedContent).val

\* the chunks of a JSON value written without whitespace
RECURSIVE DigitsOf(_)
DigitsOf(n) == IF n = 0 THEN <<>> ELSE Append(DigitsOf(n \div 10), "1")

RECURSIVE Render(_), RenderElems(_)
Render(v) ==
    IF "null" \in DOMAIN v THEN <<"null">>
    ELSE IF "num" \in DOMAIN v THEN DigitsOf(v.num)
    ELSE <<"[">> \o RenderElems(v.arr) \o <<"]">>

RenderElems(vs) ==
    IF vs = <<>> THEN <<>>
    ELSE IF Len(vs) = 1 THEN Render(vs[1])
    ELSE Render(vs[1]) \o <<",">> \o RenderElems(Tail(vs))

NotSpace(c) == c # " "

StripSpaces(s) == SelectSeq(s, NotSpace)

-----------------------------------------------------------------------------
(* Properties *)

\* C1: a request with a non-blank prompt makes exactly one upstream call,
\* whatever its result, and the payload of that call names the chat model and
\* has two messages: the system instruction, then the prompt unchanged as the
\* user message.
C1_OneCallWithSystemAndPrompt ==
    /\ Len(calls) <= 1
    /\ (HasPrompt /\ ~Blank(PromptOf)) =>
          /\ Len(calls) = 1
          /\ calls[1].model = "llama3-8b-8192"
          /\ calls[1].messages =
                <<[role |-> "system", content |-> [str |-> system_msg]],
                  [role |-> "user", content |-> [str |-> PromptOf]]>>

C1_Witness ==
    /\ TransportFailed
    /\ HasPrompt
    /\ PromptOf = <<" ", "a">>
    /\ Len(calls) = 1
    /\ calls[1].messages[2].content.str = <<" ", "a">>

\* C2: a request whose prompt is empty or whitespace only is answered 400
\* with an error body, and no upstream call is made for it.
C2_BlankPromptIs400 ==
    (HasPrompt /\ Blank(PromptOf)) =>
        /\ Done
        /\ calls = <<>>
        /\ res = None
        /\ resp.status = 400
        /\ IsErrorBody(resp)

C2_Witness ==
    /\ Done
    /\ HasPrompt
    /\ PromptOf = <<" ", " ">>
    /\ resp.status = 400
    /\ calls = <<>>

\* C3: a request body with none of prompt, message and messages is answered
\* 400, and no upstream call is attempted.
C3_NoFieldsIs400 ==
    (HasObject /\ DOMAIN req.body.obj \cap {"prompt", "message", "messages"} = {}) =>
        /\ Done
        /\ calls = <<>>
        /\ resp.status = 400

\* C4: a request whose upstream call gets no answer is eventually answered
\* 504 Gateway Timeout.
C4_SilentUpstreamGets504 ==
    (pc = "awaiting" /\ res = [pending |-> "silent"])
        ~> (Done /\ resp.status = 504)

\* A call that the upstream answers or refuses does complete: the request of
\* C4 is held up by the silence of the upstream alone.
AnsweredCallCompletes ==
    (pc = "awaiting" /\ res # [pending |-> "silent"]) ~> Done

\* C5: a non-2xx upstream response with status S and body text B is answered
\* with exactly status S and an error that contains S and B, never with a
\* completion.
C5_UpstreamStatusPropagated ==
    (Responded /\ ~Is2xx(res.ok.status) /\ res.ok.body # ReadErr) =>
        /\ resp.status = res.ok.status
        /\ DOMAIN resp.body = {"error"}
        /\ resp.body.error.status = res.ok.status
        /\ resp.body.error.text = res.ok.body

C5_Witness ==
    /\ Responded
    /\ res.ok = [status |-> 503, body |-> [text |-> "rate limited"]]
    /\ resp.status = 503
    /\ resp.body.error.text = [text |-> "rate limited"]

\* C6: a transport failure of the upstream call is answered 504 with an error
\* description, and the handler answers 504 of its own only then: any other
\* 504 is the upstream's status passed on.
C6_TransportFailureIs504 ==
    /\ TransportFailed =>
          /\ resp.status = 504
          /\ DOMAIN resp.body = {"error"}
          /\ resp.body.error.e = res.err
    /\ (Done /\ IsChat /\ resp.status = 504) =>
          \/ TransportFailed
          \/ Responded /\ res.ok.status = 504

C6_Witness ==
    /\ TransportFailed
    /\ res.err = "connection refused"
    /\ resp.status = 504

\* C7: when the upstream answers 2xx and the trimmed content is the text of a
\* JSON array, the answer is 200 with body {actions: A}, A being that array:
\* the same elements in the same order.
C7_ArrayContentIs200Actions ==
    (RespondedContent /\ ContentIsArray) =>
        /\ resp.status = 200
        /\ DOMAIN resp.body = {"actions"}
        /\ "arr" \in DOMAIN resp.body.actions
        /\ Render(resp.body.actions) = StripSpaces(TrimmedContent)

C7_Witness ==
    /\ RespondedContent
    /\ ContentOf(res.ok.body.doc) = <<"[", "1", ",", "null", "]">>
    /\ resp.status = 200
    /\ resp.body.actions = [arr |-> <<[num |-> 1], [null |-> TRUE]>>]

\* C8: when the upstream answers 2xx and the trimmed content is not the text
\* of a JSON array (not JSON, or a JSON value of another kind), the answer is
\* 422 with an error body; a 200 is given only for a JSON array.
C8_NonArrayContentIs422 ==
    /\ (RespondedContent /\ ~ContentIsArray) =>
          /\ resp.status = 422
          /\ DOMAIN resp.body = {"error"}
    /\ (Done /\ IsChat /\ resp.status = 200) =>
          RespondedContent /\ ContentIsArray

C8_Witness ==
    /\ RespondedContent
    /\ ContentOf(res.ok.body.doc) = <<"1">>
    /\ resp.status = 422

\* C9: when the upstream answers 2xx with a JSON document that has no element
\* at choices[0], the answer is 500 with the error "no choices found".
C9_NoChoicesIs500 ==
    (RespondedJson /\ ~HasChoice0(res.ok.body.doc)) =>
        /\ resp.status = 500
        /\ resp.body.error.msg = "no choices found"

\* C10: when the upstream answers 2xx with a body that is not JSON, the answer
\* is 500 with an error saying the upstream response could not be parsed; it
\* is neither a 200 nor a 422.
C10_UnparseableBodyIs500 ==
    (Responded /\ Is2xx(res.ok.status) /\ "text" \in DOMAIN res.ok.body) =>
        /\ resp.status = 500
        /\ DOMAIN resp.body = {"error"}
        /\ resp.body.error.msg = "Failed to parse Groq API response JSON: {}"

C10_Witness ==
    /\ Responded
    /\ res.ok = [status |-> 201, body |-> [text |-> "rate limited"]]
    /\ resp.status = 500

====
